---------------------------- MODULE Spec2Model ----------------------------
(***************************************************************************)
(* The Isilon volume driver (nova/volume/isilon.py) as a state machine.    *)
(*                                                                         *)
(* State: the appliance (targets, the LUNs inside them, each target's      *)
(* ACL) and, per caller thread, the driver call it is in: its arguments,   *)
(* its position, the appliance commands it has issued so far with their    *)
(* outcomes, and the exception or value it ended with.                     *)
(*                                                                         *)
(* Strings are sequences of one-character strings, so that                 *)
(* volume['name'].split(':')[0] and string concatenation are computed as   *)
(* Python computes them.                                                   *)
(***************************************************************************)
EXTENDS Integers, Sequences, FiniteSets, TLC

(***************************************************************************)
(* Bounds of the model.                                                    *)
(***************************************************************************)
MaxLunId == 2

NumThreads == 2

(***************************************************************************)
(* Names.                                                                  *)
(***************************************************************************)
DigitChars == <<"1", "2", "3", "4", "5">>

LunIdChars == {DigitChars[i] : i \in 1..MaxLunId}

TargetLetters == {"a", "b"}

TargetNames == {<<l>> : l \in TargetLetters}

\* FLAGS.san_ip as the driver's tests set it
san_ip == <<"1", ".", "1", ".", "1", ".", "1">>

\* FLAGS.isilon_iscsi_target_portal_port at its default, formatted with %s
isilon_iscsi_target_portal_port == <<"3", "2", "6", "0">>

\* '<target_name>:<lun_id>', the form of a LUN name (create_volume docstring)
LunName(tg, id) == tg \o <<":", id>>

LunNames == {LunName(tg, id) : tg \in TargetNames, id \in LunIdChars}

\* the names a caller passes in volume['name'] / snapshot['name']: composite
\* names, and names with no ':' (the tests' 'volume1')
VolumeNames == LunNames \cup TargetNames

\* snapshot['volume_id'] as a string
VolumeIds == {<<"1">>, <<":", "1">>}

Sizes == {-1, 0, 1}

NoInitiator == <<"n", "o">>

Initiators == {<<"i">>, <<"j">>}

\* a connector is the set of its keys' values: with or without 'initiator'
NoConnectorInitiator == <<>>

Connectors == Initiators \cup {NoConnectorInitiator}

Threads == 1..NumThreads

\* the caller thread of a deployment that serializes its driver calls
SeqThreads == {t \in Threads : \A u \in Threads : t <= u}

\* FLAGS.isilon_lun_force_deletion at its default
isilon_lun_force_deletion == FALSE

(***************************************************************************)
(* Python string helpers.                                                  *)
(***************************************************************************)
Contains(s, c) == \E i \in 1..Len(s) : s[i] = c

RECURSIVE SplitHead(_)
\* s.split(':')[0]
SplitHead(s) ==
    IF s = <<>> \/ Head(s) = ":" THEN <<>>
    ELSE <<Head(s)>> \o SplitHead(Tail(s))

\* IsilonDriver._target_name
target_name(name) == SplitHead(name)

VARIABLES targets, luns, acl, pc, call, cmds, result, returned, lun_list,
          preLuns, deleted, lastCreate

vars == <<targets, luns, acl, pc, call, cmds, result, returned, lun_list,
          preLuns, deleted, lastCreate>>

(***************************************************************************)
(* The appliance behind the `isi` command line: what each command answers  *)
(* and does.  A LUN lives inside the target its name starts with.          *)
(***************************************************************************)
LunsOf(tg, ls) == {l \in ls : SplitHead(l) = tg}

\* the ACL `isi target create --require-allow=True` leaves
NewAcl == [initiator |-> NoInitiator, require_allow |-> TRUE]

TargetCreateOut(tg) ==
    IF tg \in targets THEN "exists"
    ELSE IF tg \notin TargetNames THEN "invalid"
    ELSE "ok"

LunDeleteOut(name) == IF name \in luns THEN "ok" ELSE "nosuch"

TargetListOut(tg) == IF tg \in targets THEN "ok" ELSE "nosuch"

TargetDeleteOut(tg) == IF tg \in targets THEN "ok" ELSE "nosuch"

FreeIds(tg) == {i \in 1..MaxLunId : LunName(tg, DigitChars[i]) \notin luns}

\* the LUN a clone creates: '--clone=<target_name>[:<lun_id>]', the appliance
\* numbering the clone itself when the name carries no id
CloneDest(dst) ==
    IF Contains(dst, ":") THEN dst
    ELSE LET free == FreeIds(dst)
         IN LunName(dst, DigitChars[CHOOSE i \in free : \A j \in free : i <= j])

LunCloneOut(src, dst) ==
    IF src \notin luns THEN "nosuch"
    ELSE IF SplitHead(dst) \notin targets THEN "notarget"
    ELSE IF Contains(dst, ":")
         THEN (IF dst \in luns THEN "exists" ELSE "ok")
         ELSE (IF FreeIds(dst) = {} THEN "full" ELSE "ok")

(***************************************************************************)
(* SanISCSIDriver._execute: runs the command on the appliance and returns  *)
(* its output, or raises an execution error when the appliance cannot be   *)
(* reached or the command fails.                                           *)
(***************************************************************************)
Channel == {"reached", "unreachable"}

Execute(ch, applianceOut) ==
    IF ch = "unreachable" THEN "unreachable" ELSE applianceOut

\* an issued command: its --name, its second name-valued argument (--clone,
\* --initiator), its remaining options, how it ended, and the LUNs its
\* output lists or its execution creates or destroys
Entry(c, name, value, opt, out, listed) ==
    [c |-> c, name |-> name, value |-> value, opt |-> opt, out |-> out,
     listed |-> listed]

(***************************************************************************)
(* Driver calls.                                                           *)
(***************************************************************************)
NoName == <<>>

\* remove_interface's arguments: the fixed ip, and the vif, None or a row
\* with its 'address'
Ips == {<<"4">>, <<"5">>}

NoVif == <<>>

VifAddresses == {<<"m">>, <<"n">>}

Vifs == VifAddresses \cup {NoVif}

Call(op, name, size, snapshot, volume_id, connector) ==
    [op |-> op, name |-> name, size |-> size, snapshot |-> snapshot,
     volume_id |-> volume_id, connector |-> connector,
     volume_name |-> NoName, ip |-> NoName, vif |-> NoVif, force |-> FALSE,
     redo |-> FALSE, again |-> FALSE, tgtAtStart |-> FALSE]

NoCall == Call("none", NoName, 0, NoName, NoName, NoConnectorInitiator)

CreateVolumeCalls ==
    {Call("create_volume", n, sz, NoName, NoName, NoConnectorInitiator) :
        n \in VolumeNames, sz \in Sizes}

DeleteVolumeCalls ==
    {Call("delete_volume", n, 1, NoName, NoName, NoConnectorInitiator) :
        n \in VolumeNames}

CreateVolumeFromSnapshotCalls ==
    {Call("create_volume_from_snapshot", n, 1, s, NoName, NoConnectorInitiator) :
        n \in VolumeNames, s \in VolumeNames}

\* a snapshot: its name, its parent volume's id and the name of the parent
\* volume, a LUN whose number is the id's
CreateSnapshotCalls ==
    {c \in {[Call("create_snapshot", n, 0, NoName, v, NoConnectorInitiator)
        EXCEPT !.volume_name = p] :
        n \in VolumeNames,
        v \in VolumeIds,
        p \in LunNames} :
        c.volume_name[Len(c.volume_name)] = c.volume_id[Len(c.volume_id)]}

DeleteSnapshotCalls ==
    {Call("delete_snapshot", n, 0, NoName, NoName, NoConnectorInitiator) :
        n \in VolumeNames}

CreateExportCalls ==
    {Call("create_export", n, 1, NoName, NoName, NoConnectorInitiator) :
        n \in VolumeNames}

InitializeConnectionCalls ==
    {Call("initialize_connection", n, 1, NoName, NoName, c) :
        n \in VolumeNames, c \in Connectors}

TerminateConnectionCalls ==
    {Call("terminate_connection", n, 1, NoName, NoName, c) :
        n \in VolumeNames, c \in Connectors}

\* LinuxNetDHCPDriver.remove_interface, under either value of
\* FLAGS.force_dhcp_release
RemoveInterfaceCalls ==
    {[Call("remove_interface", NoName, 0, NoName, NoName, NoConnectorInitiator)
        EXCEPT !.ip = i, !.vif = v, !.force = f] :
        i \in Ips, v \in Vifs, f \in BOOLEAN}

\* the drivers' public operations
PublicCalls ==
    CreateVolumeCalls \cup DeleteVolumeCalls \cup CreateVolumeFromSnapshotCalls
    \cup CreateSnapshotCalls \cup DeleteSnapshotCalls \cup CreateExportCalls
    \cup InitializeConnectionCalls \cup TerminateConnectionCalls
    \cup RemoveInterfaceCalls

\* volume creation and deletion, the operations whose commands race
LunCalls ==
    CreateVolumeCalls \cup DeleteVolumeCalls \cup CreateVolumeFromSnapshotCalls

\* IsilonDriver._create_target called on its own
CreateTargetCalls ==
    {Call("_create_target", n, 0, NoName, NoName, NoConnectorInitiator) :
        n \in TargetNames}

Entry_pc(op) ==
    CASE op = "create_volume" -> "cv_check"
      [] op = "delete_volume" -> "dv_lun_delete"
      [] op = "create_volume_from_snapshot" -> "cvs_clone"
      [] op = "create_snapshot" -> "cs_clone"
      [] op = "delete_snapshot" -> "ds_lun_delete"
      [] op = "create_export" -> "ce_return"
      [] op = "initialize_connection" -> "ic_update"
      [] op = "terminate_connection" -> "tc_update"
      [] op = "_create_target" -> "ct_create"
      [] op = "remove_interface" -> "ri_release"

\* what a call that returns None, or raises, hands its caller
NoReturn == <<>>

\* the call ends with `res`, returning `value` when it returns one
FinishWith(t, res, value) ==
    /\ pc' = [pc EXCEPT ![t] = "done"]
    /\ result' = [result EXCEPT ![t] = res]
    /\ returned' = [returned EXCEPT ![t] = value]

Finish(t, res) == FinishWith(t, res, NoReturn)

Goto(t, label) ==
    /\ pc' = [pc EXCEPT ![t] = label]
    /\ UNCHANGED <<result, returned>>

Log(t, e) == cmds' = [cmds EXCEPT ![t] = Append(@, e)]

(***************************************************************************)
(* The appliance as a working deployment left it: every LUN inside an      *)
(* existing target, every target holding a LUN, each target's ACL as       *)
(* target-create set it.  No driver call is in progress.                   *)
(***************************************************************************)
Init ==
    /\ luns \in SUBSET LunNames
    /\ targets = {SplitHead(l) : l \in luns}
    /\ acl = [tg \in targets |-> NewAcl]
    /\ pc = [t \in Threads |-> "idle"]
    /\ call = [t \in Threads |-> NoCall]
    /\ cmds = [t \in Threads |-> <<>>]
    /\ result = [t \in Threads |-> "none"]
    /\ returned = [t \in Threads |-> NoReturn]
    /\ lun_list = [t \in Threads |-> {}]
    /\ preLuns = [t \in Threads |-> {}]
    /\ deleted = {}
    /\ lastCreate = NoName

\* a caller invokes operation c
StartCall(t, c) ==
    /\ pc[t] = "idle"
    /\ call' = [call EXCEPT ![t] =
                  [c EXCEPT !.redo = (c.op = "delete_volume" /\ c.name \in deleted),
                            !.again = (c.op = "create_volume" /\ c.name = lastCreate),
                            !.tgtAtStart = (SplitHead(c.name) \in targets)]]
    /\ pc' = [pc EXCEPT ![t] = Entry_pc(c.op)]
    /\ preLuns' = [preLuns EXCEPT ![t] = luns]
    /\ lastCreate' = IF c.op = "create_volume" THEN c.name ELSE NoName
    /\ UNCHANGED <<targets, luns, acl, cmds, result, returned, lun_list, deleted>>

\* the call returns to its caller (or its exception reaches it)
Return(t) ==
    /\ pc[t] = "done"
    /\ pc' = [pc EXCEPT ![t] = "idle"]
    /\ call' = [call EXCEPT ![t] = NoCall]
    /\ cmds' = [cmds EXCEPT ![t] = <<>>]
    /\ result' = [result EXCEPT ![t] = "none"]
    /\ returned' = [returned EXCEPT ![t] = NoReturn]
    /\ lun_list' = [lun_list EXCEPT ![t] = {}]
    /\ preLuns' = [preLuns EXCEPT ![t] = {}]
    /\ UNCHANGED <<targets, luns, acl, deleted, lastCreate>>

(***************************************************************************)
(* create_volume.  Line 90 reads volume[name], and the module binds no     *)
(* `name`: evaluating the subscript raises NameError before the membership *)
(* test, so the call ends there whatever the volume is.                    *)
(***************************************************************************)
create_volume_check(volume) == "NameError"

CreateVolume(t) ==
    /\ pc[t] = "cv_check"
    /\ Finish(t, create_volume_check(call[t]))
    /\ UNCHANGED <<targets, luns, acl, call, cmds, lun_list, preLuns, deleted,
                   lastCreate>>

(***************************************************************************)
(* _create_target: target-create inside try / except Exception, so every   *)
(* failure of the command is logged and the helper returns normally.       *)
(***************************************************************************)
create_target_after(out) == "return"

CreateTarget(t) ==
    /\ pc[t] = "ct_create"
    /\ \E ch \in Channel :
         LET tg == call[t].name
             out == Execute(ch, TargetCreateOut(tg))
         IN /\ targets' = IF out = "ok" THEN targets \cup {tg} ELSE targets
            /\ acl' = IF out = "ok"
                      THEN [x \in targets \cup {tg} |->
                              IF x = tg THEN NewAcl ELSE acl[x]]
                      ELSE acl
            /\ Log(t, Entry("target create", tg, NoName, "--require-allow=True",
                            out, {}))
            /\ IF create_target_after(out) = "raise"
               THEN Finish(t, "ExecutionError")
               ELSE Finish(t, "ok")
    /\ UNCHANGED <<luns, call, lun_list, preLuns, deleted, lastCreate>>

(***************************************************************************)
(* delete_volume: lun delete; target list --luns; target delete when the   *)
(* listing is empty.  No handler surrounds any of the three commands.      *)
(***************************************************************************)
lun_delete_opt == IF isilon_lun_force_deletion THEN "--force" ELSE ""

\* a delete_volume that logs and swallows a failed lun delete
delete_volume_swallowing(out) == "dv_list"

\* lines 123-124: an exception of _execute leaves delete_volume
delete_volume_after_lun_delete(out) == IF out = "ok" THEN "dv_list" ELSE "raise"

\* a delete_volume that deletes the target whatever the listing says
ShouldDeleteTargetAlways(listing) == TRUE

\* a delete_volume that never deletes the target
ShouldDeleteTargetNever(listing) == FALSE

\* line 131: `if not lun_list`
ShouldDeleteTarget(listing) == listing = {}

DeleteVolumeLunDelete(t) ==
    /\ pc[t] = "dv_lun_delete"
    /\ \E ch \in Channel :
         LET name == call[t].name
             out == Execute(ch, LunDeleteOut(name))
             nxt == delete_volume_after_lun_delete(out)
         IN /\ luns' = IF out = "ok" THEN luns \ {name} ELSE luns
            /\ deleted' = IF out = "ok" THEN deleted \cup {name} ELSE deleted
            /\ Log(t, Entry("lun delete", name, NoName, lun_delete_opt, out, {}))
            /\ IF nxt = "raise" THEN Finish(t, "ExecutionError") ELSE Goto(t, nxt)
    /\ UNCHANGED <<targets, acl, call, lun_list, preLuns, lastCreate>>

DeleteVolumeList(t) ==
    /\ pc[t] = "dv_list"
    /\ \E ch \in Channel :
         LET tg == target_name(call[t].name)
             out == Execute(ch, TargetListOut(tg))
             listing == IF out = "ok" THEN LunsOf(tg, luns) ELSE {}
         IN /\ Log(t, Entry("target list", tg, NoName, "--luns", out, listing))
            /\ IF out # "ok"
               THEN Finish(t, "ExecutionError") /\ UNCHANGED lun_list
               ELSE /\ lun_list' = [lun_list EXCEPT ![t] = listing]
                    /\ IF ShouldDeleteTarget(listing)
                       THEN Goto(t, "dv_target_delete")
                       ELSE Finish(t, "ok")
    /\ UNCHANGED <<targets, luns, acl, call, preLuns, deleted, lastCreate>>

\* _delete_target, as delete_volume calls it
DeleteTarget(t) ==
    /\ pc[t] = "dv_target_delete"
    /\ \E ch \in Channel :
         LET tg == target_name(call[t].name)
             out == Execute(ch, TargetDeleteOut(tg))
             gone == IF out = "ok" THEN LunsOf(tg, luns) ELSE {}
         IN /\ targets' = IF out = "ok" THEN targets \ {tg} ELSE targets
            /\ luns' = luns \ gone
            /\ acl' = IF out = "ok" THEN [x \in targets \ {tg} |-> acl[x]] ELSE acl
            /\ Log(t, Entry("target delete", tg, NoName, "--force", out, gone))
            /\ IF out # "ok" THEN Finish(t, "ExecutionError") ELSE Finish(t, "ok")
    /\ UNCHANGED <<call, lun_list, preLuns, deleted, lastCreate>>

(***************************************************************************)
(* The two clone operations and delete_snapshot: one command each.         *)
(***************************************************************************)
\* lines 144-145: '--name=%s' % self._target_name(snapshot) + snapshot['volume_id']
create_snapshot_source(snapshot) == target_name(snapshot.name) \o snapshot.volume_id

Clone(t, src, dst, type) ==
    \E ch \in Channel :
        LET out == Execute(ch, LunCloneOut(src, dst))
            made == IF out = "ok" THEN {CloneDest(dst)} ELSE {}
        IN /\ luns' = luns \cup made
           /\ deleted' = deleted \ made
           /\ Log(t, Entry("lun clone", src, dst, type, out, made))
           /\ IF out # "ok" THEN Finish(t, "ExecutionError") ELSE Finish(t, "ok")

\* a create_volume_from_snapshot that asks for a snapshot clone
create_volume_from_snapshot_type_swapped == "--type=snapshot"

\* line 116
create_volume_from_snapshot_type == "--type=normal"

\* line 146
create_snapshot_type == "--type=snapshot"

CreateVolumeFromSnapshot(t) ==
    /\ pc[t] = "cvs_clone"
    /\ Clone(t, call[t].snapshot, call[t].name, create_volume_from_snapshot_type)
    /\ UNCHANGED <<targets, acl, call, lun_list, preLuns, lastCreate>>

CreateSnapshot(t) ==
    /\ pc[t] = "cs_clone"
    /\ Clone(t, create_snapshot_source(call[t]), call[t].name, create_snapshot_type)
    /\ UNCHANGED <<targets, acl, call, lun_list, preLuns, lastCreate>>

\* line 154: lun delete and nothing else
DeleteSnapshot(t) ==
    /\ pc[t] = "ds_lun_delete"
    /\ \E ch \in Channel :
         LET name == call[t].name
             out == Execute(ch, LunDeleteOut(name))
         IN /\ luns' = IF out = "ok" THEN luns \ {name} ELSE luns
            /\ Log(t, Entry("lun delete", name, NoName, "", out, {}))
            /\ IF out # "ok" THEN Finish(t, "ExecutionError") ELSE Finish(t, "ok")
    /\ UNCHANGED <<targets, acl, call, lun_list, preLuns, deleted, lastCreate>>

(***************************************************************************)
(* create_export: no command; the provider location                        *)
(* '<san_ip>:<portal port>,1 <target name>'.                               *)
(***************************************************************************)
create_export(volume) ==
    san_ip \o <<":">> \o isilon_iscsi_target_portal_port \o <<",", "1", " ">>
        \o target_name(volume.name)

CreateExport(t) ==
    /\ pc[t] = "ce_return"
    /\ FinishWith(t, "ok", create_export(call[t]))
    /\ UNCHANGED <<targets, luns, acl, call, cmds, lun_list, preLuns, deleted,
                   lastCreate>>

(***************************************************************************)
(* _update_target iterates `prop_dict.keys`, the bound method itself, on   *)
(* line 67, outside its try block: TypeError before the command is built.  *)
(* initialize_connection reads connector['initiator'] while building the   *)
(* argument, so a connector without one raises KeyError first.             *)
(***************************************************************************)
update_target(tg, prop_dict) == "TypeError"

initialize_connection(volume, connector) ==
    IF connector = NoConnectorInitiator THEN "KeyError"
    ELSE update_target(target_name(volume),
                       [initiator |-> connector, require_allow |-> TRUE])

terminate_connection(volume, connector) ==
    update_target(target_name(volume),
                  [initiator |-> NoInitiator, require_allow |-> FALSE])

InitializeConnection(t) ==
    /\ pc[t] = "ic_update"
    /\ Finish(t, initialize_connection(call[t].name, call[t].connector))
    /\ UNCHANGED <<targets, luns, acl, call, cmds, lun_list, preLuns, deleted,
                   lastCreate>>

TerminateConnection(t) ==
    /\ pc[t] = "tc_update"
    /\ Finish(t, terminate_connection(call[t].name, call[t].connector))
    /\ UNCHANGED <<targets, luns, acl, call, cmds, lun_list, preLuns, deleted,
                   lastCreate>>

(***************************************************************************)
(* LinuxNetDHCPDriver.remove_interface: nothing unless                     *)
(* FLAGS.force_dhcp_release; then LOG.error when the vif is missing, and   *)
(* otherwise get_dev and release_dhcp of the network driver.               *)
(***************************************************************************)
\* a remove_interface that does not consult FLAGS.force_dhcp_release
remove_interface_unconditional(force, vif) ==
    IF vif = NoVif THEN "log_error" ELSE "release_dhcp"

\* lines 43-55
remove_interface(force, vif) ==
    IF ~force THEN "nothing"
    ELSE IF vif = NoVif THEN "log_error"
    ELSE "release_dhcp"

\* self.driver.get_dev(network_ref)
get_dev == "dev"

RemoveInterface(t) ==
    /\ pc[t] = "ri_release"
    /\ LET does == remove_interface(call[t].force, call[t].vif)
       IN cmds' = [cmds EXCEPT ![t] =
            CASE does = "nothing" -> @
              [] does = "log_error" ->
                   Append(@, Entry("LOG.error", call[t].ip, NoName, "", "ok", {}))
              [] does = "release_dhcp" ->
                   Append(@, Entry("release_dhcp", call[t].ip, call[t].vif,
                                   get_dev, "ok", {}))]
    /\ Finish(t, "ok")
    /\ UNCHANGED <<targets, luns, acl, call, lun_list, preLuns, deleted,
                   lastCreate>>

(***************************************************************************)
(* Specifications.                                                         *)
(***************************************************************************)
Step(t) ==
    \/ CreateVolume(t)
    \/ DeleteVolumeLunDelete(t)
    \/ DeleteVolumeList(t)
    \/ DeleteTarget(t)
    \/ CreateVolumeFromSnapshot(t)
    \/ CreateSnapshot(t)
    \/ DeleteSnapshot(t)
    \/ CreateExport(t)
    \/ InitializeConnection(t)
    \/ TerminateConnection(t)
    \/ RemoveInterface(t)
    \/ Return(t)

Start(t) == \E c \in PublicCalls : StartCall(t, c)

\* one caller, one driver call at a time
Next == \E t \in SeqThreads : Start(t) \/ Step(t)

Spec == Init /\ [][Next]_vars

StartLun(t) == \E c \in LunCalls : StartCall(t, c)

\* callers in several threads, one call each, their commands interleaving
NextConc ==
    \E t \in Threads :
        \/ StartLun(t)
        \/ CreateVolume(t)
        \/ DeleteVolumeLunDelete(t)
        \/ DeleteVolumeList(t)
        \/ DeleteTarget(t)
        \/ CreateVolumeFromSnapshot(t)

SpecConc == Init /\ [][NextConc]_vars

StartHelper(t) == \E c \in CreateTargetCalls : StartCall(t, c)

\* the public operations and the target helper on its own
NextHelpers == \E t \in SeqThreads : Start(t) \/ StartHelper(t) \/ Step(t) \/ CreateTarget(t)

SpecHelpers == Init /\ [][NextHelpers]_vars

(***************************************************************************)
(* Properties.                                                             *)
(***************************************************************************)
Done(t, op) == pc[t] = "done" /\ call[t].op = op

Quiescent == \A t \in Threads : pc[t] \in {"idle", "done"}

C2_TargetFollowsLastLun ==
    \A t \in Threads :
        Done(t, "delete_volume") /\ result[t] = "ok" =>
            LET tg == SplitHead(call[t].name)
                others == LunsOf(tg, preLuns[t]) \ {call[t].name}
            IN IF others = {}
               THEN tg \notin targets
               ELSE tg \in targets /\ LunsOf(tg, luns) = others

C2_Witness ==
    \E t \in Threads :
        /\ Done(t, "delete_volume")
        /\ result[t] = "ok"
        /\ call[t].name \in preLuns[t]
        /\ LunsOf(SplitHead(call[t].name), preLuns[t]) = {call[t].name}
        /\ SplitHead(call[t].name) \notin targets

\* C3: between completed driver operations, a target exists on the appliance
\* if and only if at least one LUN exists under it.
C3_TargetIffLun ==
    Quiescent =>
        \A tg \in TargetNames : tg \in targets <=> LunsOf(tg, luns) # {}

\* C4: a create_volume call for the identifier of the create_volume call just
\* before it gets past target create and fails with an execution error at a
\* lun create that reports the LUN as existing.
C4_SecondCreateFailsAtLunCreate ==
    \A t \in Threads :
        Done(t, "create_volume") /\ call[t].again =>
            /\ result[t] = "ExecutionError"
            /\ Len(cmds[t]) = 2
            /\ cmds[t][1].c = "target create"
            /\ cmds[t][2].c = "lun create"
            /\ cmds[t][2].out # "ok"

\* C5: when a target create fails for a reason other than the target existing
\* already, the operation that issued it ends with an execution error and
\* issues no lun create; a failed lun create ends its operation with an
\* execution error too.
C5_CreateFailureSurfaced ==
    \A t \in Threads :
        pc[t] = "done" =>
            \A i \in 1..Len(cmds[t]) :
                /\ cmds[t][i].c = "target create"
                     /\ cmds[t][i].out \notin {"ok", "exists"}
                   => /\ result[t] = "ExecutionError"
                      /\ \A j \in 1..Len(cmds[t]) : cmds[t][j].c # "lun create"
                /\ cmds[t][i].c = "lun create" /\ cmds[t][i].out # "ok"
                   => result[t] = "ExecutionError"

\* C6: a delete_volume of a volume whose LUN an earlier delete_volume removed,
\* with nothing having created that LUN again since, ends with an execution
\* error, raised by its lun delete: deletion is not idempotent.
C6_SecondDeleteFails ==
    \A t \in Threads :
        Done(t, "delete_volume") /\ call[t].redo =>
            /\ result[t] = "ExecutionError"
            /\ Len(cmds[t]) = 1
            /\ cmds[t][1].c = "lun delete"
            /\ cmds[t][1].out # "ok"

C6_Witness ==
    \E t \in Threads :
        /\ Done(t, "delete_volume")
        /\ call[t].redo
        /\ result[t] = "ExecutionError"
        /\ cmds[t][1].out = "nosuch"

\* C7: whatever the interleaving of concurrent operations on one target, no
\* target delete is executed while a LUN exists under the target, and no
\* LUN-creating command runs against a target that existed when its operation
\* started and that a concurrent delete_volume has removed since.
C7_SerializedPerTarget ==
    \A t \in Threads :
        \A i \in 1..Len(cmds[t]) :
            /\ cmds[t][i].c = "target delete" => cmds[t][i].listed = {}
            /\ cmds[t][i].c \in {"lun clone", "lun create"}
                 /\ cmds[t][i].out = "notarget"
               => ~call[t].tgtAtStart

\* C8: an initialize_connection call that ends without an execution error
\* leaves the target's ACL as exactly the connector's initiator with
\* require-allow true; a terminate_connection call that ends without one
\* leaves it with no initiator and require-allow false.
C8_AclSetOrCleared ==
    \A t \in Threads :
        LET tg == SplitHead(call[t].name)
        IN /\ Done(t, "initialize_connection")
                /\ call[t].connector \in Initiators
                /\ result[t] # "ExecutionError"
                /\ tg \in targets
              => acl[tg] = [initiator |-> call[t].connector, require_allow |-> TRUE]
           /\ Done(t, "terminate_connection")
                /\ result[t] # "ExecutionError"
                /\ tg \in targets
              => acl[tg] = [initiator |-> NoInitiator, require_allow |-> FALSE]

\* C9: every initialize_connection call issues, as its first command and
\* before any session setup, the target modify that sets the target's
\* initiator to the connector's with require-allow true.
C9_AclSetBeforeSessionSetup ==
    \A t \in Threads :
        Done(t, "initialize_connection") /\ call[t].connector \in Initiators =>
            /\ Len(cmds[t]) >= 1
            /\ cmds[t][1].c = "target modify"
            /\ cmds[t][1].name = SplitHead(call[t].name)
            /\ cmds[t][1].value = call[t].connector
            /\ cmds[t][1].opt = "--require-allow=True"
            /\ \A i \in 1..Len(cmds[t]) : cmds[t][i].c = "session setup" => i > 1

\* C10: terminate_connection ends successfully for any connector, one without
\* an initiator included, having issued exactly one command: target modify
\* for the volume's target with initiator=no and require-allow=False.
C10_TerminateSucceeds ==
    \A t \in Threads :
        Done(t, "terminate_connection") =>
            /\ result[t] = "ok"
            /\ Len(cmds[t]) = 1
            /\ cmds[t][1].c = "target modify"
            /\ cmds[t][1].name = SplitHead(call[t].name)
            /\ cmds[t][1].value = NoInitiator
            /\ cmds[t][1].opt = "--require-allow=False"

\* C11: a create_volume that fails at lun create leaves the target it created
\* on the appliance, and a retry of create_volume for the same volume, finding
\* the target there and the LUN not, gets past target create and succeeds
\* when no command of it fails: it returns normally with the LUN created.
C11_RetryPastLeftoverTarget ==
    \A t \in Threads :
        /\ Done(t, "create_volume")
        /\ call[t].again
        /\ call[t].tgtAtStart
        /\ call[t].name \in LunNames \ preLuns[t]
        /\ call[t].size > 0
        /\ \A i \in 1..Len(cmds[t]) : cmds[t][i].out # "unreachable"
        => /\ result[t] = "ok"
           /\ call[t].name \in luns
           /\ SplitHead(call[t].name) \in targets

\* C12: a create_volume call for a well-formed volume whose LUN does not exist
\* yet, no command of which fails, succeeds having issued target create and
\* then lun create, and returns the provider location
\* '<portal-address>:<portal-port>,<lun-index> <target-name>' that
\* create_export computes for the volume.
C12_CreateVolumeReturnsLocation ==
    \A t \in Threads :
        /\ Done(t, "create_volume")
        /\ call[t].name \in LunNames \ preLuns[t]
        /\ call[t].size > 0
        /\ \A i \in 1..Len(cmds[t]) : cmds[t][i].out # "unreachable"
        => /\ result[t] = "ok"
           /\ Len(cmds[t]) = 2
           /\ cmds[t][1].c = "target create"
           /\ cmds[t][2].c = "lun create"
           /\ returned[t] = create_export(call[t])

\* C13: a successful delete_snapshot has deleted the snapshot's LUN and then
\* applied delete_volume's rule: when no other LUN was under the snapshot's
\* target it has issued target delete and the target is gone; otherwise the
\* target is still there.
C13_DeleteSnapshotCleansTarget ==
    \A t \in Threads :
        Done(t, "delete_snapshot") /\ result[t] = "ok" =>
            LET tg == SplitHead(call[t].name)
                others == LunsOf(tg, preLuns[t]) \ {call[t].name}
            IN IF others = {}
               THEN /\ tg \notin targets
                    /\ \E i \in 1..Len(cmds[t]) :
                          cmds[t][i].c = "target delete" /\ cmds[t][i].name = tg
               ELSE tg \in targets

\* C14: every lun clone create_snapshot issues has --type=snapshot and every
\* lun clone create_volume_from_snapshot issues has --type=normal.
C14_CloneTypes ==
    \A t \in Threads :
        \A i \in 1..Len(cmds[t]) :
            cmds[t][i].c = "lun clone" =>
                /\ call[t].op = "create_snapshot"
                   => cmds[t][i].opt = "--type=snapshot"
                /\ call[t].op = "create_volume_from_snapshot"
                   => cmds[t][i].opt = "--type=normal"

C14_Witness ==
    \E t \in Threads :
        /\ Done(t, "create_volume_from_snapshot")
        /\ result[t] = "ok"
        /\ Len(cmds[t]) = 1
        /\ cmds[t][1].c = "lun clone"
        /\ cmds[t][1].opt = "--type=normal"
        /\ cmds[t][1].listed \subseteq luns
        /\ cmds[t][1].listed # {}

\* C15: create_volume with a name that has no ':' fails with the validation
\* error before any command: it has issued nothing and the appliance is as it
\* was.
C15_MissingDelimiterRejected ==
    \A t \in Threads :
        Done(t, "create_volume") /\ ~Contains(call[t].name, ":") =>
            /\ result[t] = "ValidationError"
            /\ cmds[t] = <<>>
            /\ luns = preLuns[t]
            /\ (SplitHead(call[t].name) \in targets) = call[t].tgtAtStart

\* C16: create_volume with a size of zero or less fails with the validation
\* error before any command: no target and no LUN is created.
C16_NonPositiveSizeRejected ==
    \A t \in Threads :
        Done(t, "create_volume") /\ call[t].size <= 0 =>
            /\ result[t] = "ValidationError"
            /\ \A i \in 1..Len(cmds[t]) :
                  cmds[t][i].c \notin {"target create", "lun create"}
            /\ luns \subseteq preLuns[t]

\* C17: when the appliance cannot carry out target modify (the volume's target
\* does not exist), initialize_connection and terminate_connection end with an
\* execution error, and initialize_connection neither sets up a session nor
\* returns a connection descriptor.
C17_ModifyFailureSurfaced ==
    \A t \in Threads :
        /\ pc[t] = "done"
        /\ \/ call[t].op = "initialize_connection"
                /\ call[t].connector \in Initiators
           \/ call[t].op = "terminate_connection"
        /\ SplitHead(call[t].name) \notin targets
        => /\ result[t] = "ExecutionError"
           /\ returned[t] = NoReturn
           /\ \A i \in 1..Len(cmds[t]) : cmds[t][i].c # "session setup"

\* C18: create_snapshot issues exactly one command, a lun clone whose --name
\* is the LUN name of the snapshot's parent volume and whose --clone is the
\* snapshot's name.
C18_SnapshotClonesParentLun ==
    \A t \in Threads :
        Done(t, "create_snapshot") =>
            /\ Len(cmds[t]) = 1
            /\ cmds[t][1].c = "lun clone"
            /\ cmds[t][1].name = call[t].volume_name
            /\ cmds[t][1].value = call[t].name

\* C19: when delete_volume's lun delete fails the call ends there with an
\* execution error: it issues neither the listing nor target delete, and the
\* volume's target and the LUNs under it are as they were when it started.
C19_FailedLunDeleteAborts ==
    \A t \in Threads :
        /\ call[t].op = "delete_volume"
        /\ Len(cmds[t]) >= 1
        /\ cmds[t][1].out # "ok"
        => LET tg == SplitHead(call[t].name)
           IN /\ pc[t] = "done"
              /\ result[t] = "ExecutionError"
              /\ Len(cmds[t]) = 1
              /\ LunsOf(tg, luns) = LunsOf(tg, preLuns[t])
              /\ (tg \in targets) = call[t].tgtAtStart

C19_Witness ==
    \E t \in Threads :
        /\ Done(t, "delete_volume")
        /\ Len(cmds[t]) = 1
        /\ cmds[t][1].out = "unreachable"
        /\ result[t] = "ExecutionError"
        /\ call[t].name \in luns
        /\ Cardinality(LunsOf(SplitHead(call[t].name), luns)) > 1

=============================================================================
